---- MODULE Spec2Model ----
(***************************************************************************)
(* Model of the two pipelines of the repository:                           *)
(*   - asrs_html_to_json.py  : _parse_acndata_block, _extract_records      *)
(*   - process_asrs_hfacs.py : main, get_hfacs_classification_from_llm,    *)
(*                             load_incidents, save_incidents              *)
(* Python strings are sequences of one-character strings, Python dicts are *)
(* sequences of entries in insertion order.                                *)
(***************************************************************************)
EXTENDS Integers, Sequences, FiniteSets, TLC

\* _extract_records
VARIABLES soup, records, record, section_name, hpos, spos, pcX

\* the classifier's main; lastExit is how the last process ended, loopRuns
\* counts the runs that reached the loop, doneRuns those that reached the
\* end of main, fresh tells that the first of them
\* found no output file, covered and overlap record the ranges they were
\* given, produced the last classification made for each input position and
\* touched the master-list positions the current run has updated
VARIABLES incidents, outfile, all_incidents_data, incident_map, has_acn,
          start_idx, end_idx, cur, target, called, response, pc, lastExit,
          runsLeft, loopRuns, doneRuns, fresh, covered, overlap, produced,
          touched

\* find_narrative_field and the lines of main that call it
VARIABLES incident_sample, narrative_field_name, pcF

xvars == <<soup, records, record, section_name, hpos, spos, pcX>>

cvars == <<incidents, outfile, all_incidents_data, incident_map, has_acn,
           start_idx, end_idx, cur, target, called, response, pc, lastExit,
           runsLeft, loopRuns, doneRuns, fresh, covered, overlap, produced,
           touched>>

fvars == <<incident_sample, narrative_field_name, pcF>>

vars == <<xvars, cvars, fvars>>

(***************************************************************************)
(* Bounds                                                                  *)
(***************************************************************************)
MaxNodes == 4
MaxRecords == 2
MaxBatch == 8
MaxRuns == 2
MaxKeys == 3

(***************************************************************************)
(* Program constants                                                       *)
(***************************************************************************)
\* (current_processing_idx + 1) % 5
CheckpointEvery == 5

(***************************************************************************)
(* Python string primitives                                                *)
(***************************************************************************)
\* str.isspace characters that occur in the model
Whitespace == {" ", "\n"}

RECURSIVE LStrip(_)
\* str.lstrip()
LStrip(s) ==
  IF s # <<>> /\ Head(s) \in Whitespace THEN LStrip(Tail(s)) ELSE s

RECURSIVE RStrip(_)
\* str.rstrip()
RStrip(s) ==
  IF s # <<>> /\ s[Len(s)] \in Whitespace
    THEN RStrip(SubSeq(s, 1, Len(s) - 1)) ELSE s

\* str.strip()
Strip(s) == RStrip(LStrip(s))

RECURSIVE RStripColon(_)
\* str.rstrip(":")
RStripColon(s) ==
  IF s # <<>> /\ s[Len(s)] = ":"
    THEN RStripColon(SubSeq(s, 1, Len(s) - 1)) ELSE s

\* the positions at which pat occurs in s
Occurrences(s, pat) ==
  { i \in 1..(Len(s) - Len(pat) + 1) : SubSeq(s, i, i + Len(pat) - 1) = pat }

\* pat in s
Contains(s, pat) == Occurrences(s, pat) # {}

\* str.find(pat) + 1 for an occurring pat
FirstIndex(s, pat) ==
  CHOOSE i \in Occurrences(s, pat) : \A j \in Occurrences(s, pat) : i <= j

\* s.split(pat, 1) when pat occurs in s
SplitFirst(s, pat) ==
  LET i == FirstIndex(s, pat)
  IN  << SubSeq(s, 1, i - 1), SubSeq(s, i + Len(pat), Len(s)) >>

RECURSIVE TakeWord(_)
\* the longest whitespace-free prefix
TakeWord(s) ==
  IF s = <<>> \/ Head(s) \in Whitespace THEN <<>>
  ELSE <<Head(s)>> \o TakeWord(Tail(s))

RECURSIVE SplitWs(_)
\* str.split()
SplitWs(s) ==
  LET t == LStrip(s)
  IN  IF t = <<>> THEN <<>>
      ELSE LET w == TakeWord(t)
           IN  <<w>> \o SplitWs(SubSeq(t, Len(w) + 1, Len(t)))

RECURSIVE Join(_, _)
\* sep.join(parts)
Join(sep, parts) ==
  IF parts = <<>> THEN <<>>
  ELSE IF Len(parts) = 1 THEN parts[1]
  ELSE parts[1] \o sep \o Join(sep, Tail(parts))

\* iterating a str yields its one-character strings
CharsOf(s) == [i \in 1..Len(s) |-> <<s[i]>>]

(***************************************************************************)
(* Python dict with insertion order: a sequence of entries [k, ...]        *)
(***************************************************************************)
DictHas(d, key) == \E i \in 1..Len(d) : d[i].k = key

DictIdx(d, key) == CHOOSE i \in 1..Len(d) : d[i].k = key

DictGet(d, key) == d[DictIdx(d, key)]

\* d[key] = entry (entry.k = key): replaces in place, else appends
DictSet(d, entry) ==
  IF DictHas(d, entry.k)
    THEN [d EXCEPT ![DictIdx(d, entry.k)] = entry]
    ELSE Append(d, entry)

DictKeys(d) == { d[i].k : i \in 1..Len(d) }

(***************************************************************************)
(* Values                                                                  *)
(***************************************************************************)
\* section_name = None
None == << "<None>" >>

KeyACN == <<"A", "C", "N">>
KeyText == <<"t", "e", "x", "t">>
KvSep == <<" ", ":", " ">>

\* a str value of a section: v holds the one string
StrVal(key, s) == [k |-> key, t |-> "str", v |-> <<s>>]

\* a list value of a section: v holds the strings
ListVal(key, l) == [k |-> key, t |-> "list", v |-> l]

\* record[key] = str
RecStr(key, s) == [k |-> key, t |-> "str", s |-> s, d |-> <<>>]

\* record[key] = dict (a section)
RecDict(key, sec) == [k |-> key, t |-> "dict", s |-> <<>>, d |-> sec]

(***************************************************************************)
(* Documents: <p> nodes with a class and their decoded content.            *)
(* A node's raw content is the list of the pieces between "<br>"; a piece  *)
(* is the list of its text nodes (markup separates two text nodes).        *)
(***************************************************************************)
Txt(s) == << s >>

Node(cls, raw) == [cls |-> cls, raw |-> raw]

HeadingFull ==
  Node("acnheading", << Txt(<<"A","C","N",":"," ","7"," ","(","1",")">>) >>)
HeadingNoToken == Node("acnheading", << Txt(<<"A","C","N",":">>) >>)
HeadingNoColon == Node("acnheading", << Txt(<<"A","C","N"," ","7">>) >>)

SectionS == Node("acnsection", << Txt(<<"S",":">>) >>)
SectionACN == Node("acnsection", << Txt(<<"A","C","N",":">>) >>)
SectionEmpty == Node("acnsection", << Txt(<<":">>) >>)

DataDup ==
  Node("acndata", << Txt(<<"A"," ",":"," ","1">>),
                     Txt(<<"B"," "," ",":"," "," ","2">>),
                     Txt(<<"A"," ",":"," ","2">>),
                     Txt(<<"A"," ",":"," ","3">>) >>)
DataNarr == Node("acndata", << Txt(<<"n","1">>), Txt(<<"n","2">>) >>)
DataText ==
  Node("acndata", << Txt(<<"t","e","x","t"," ",":"," ","v","w">>) >>)
DataMarkup ==
  Node("acndata", << << <<>>, <<>> >>,
                     Txt(<<" ">>),
                     << <<"x"," ">>, <<" ","y">> >> >>)

Other == Node("other", << Txt(<<"o">>) >>)

NodePool ==
  { HeadingFull, HeadingNoToken, HeadingNoColon,
    SectionS, SectionACN, SectionEmpty,
    DataDup, DataNarr, DataText, DataMarkup, Other }

Documents == UNION { [1..n -> NodePool] : n \in 0..MaxNodes }

(***************************************************************************)
(* BeautifulSoup text extraction as the code uses it                       *)
(***************************************************************************)
RECURSIVE StrippedNonEmpty(_)
\* the text nodes, each stripped, the empty ones skipped
StrippedNonEmpty(frags) ==
  IF frags = <<>> THEN <<>>
  ELSE LET f == Strip(Head(frags))
       IN  (IF f = <<>> THEN <<>> ELSE <<f>>) \o StrippedNonEmpty(Tail(frags))

\* get_text(" ", strip=True) of one piece
GetText(frags) == Join(<<" ">>, StrippedNonEmpty(frags))

\* get_text(" ", strip=True) of a whole node
NodeText(node) ==
  Join(<<" ">>, StrippedNonEmpty(Join(<<>>, node.raw)))

\* line.strip() is truthy: the raw piece holds markup or a non-blank text
RawTruthy(frags) ==
  Len(frags) > 1 \/ \E i \in 1..Len(frags) : Strip(frags[i]) # <<>>

RECURSIVE _parse_acndata_block(_)
_parse_acndata_block(raw) ==
  IF raw = <<>> THEN <<>>
  ELSE (IF RawTruthy(Head(raw)) THEN << GetText(Head(raw)) >> ELSE <<>>)
       \o _parse_acndata_block(Tail(raw))

(***************************************************************************)
(* One line applied to the current section (lines 64-75)                   *)
(***************************************************************************)
\* key, val = map(str.strip, line.split(" : ", 1))
LineKey(line) == Strip(SplitFirst(line, KvSep)[1])
LineVal(line) == Strip(SplitFirst(line, KvSep)[2])

\* the result of one line: ok = FALSE when the statement raises
ApplyLine(sec, line) ==
  IF Contains(line, KvSep)
    THEN LET key == LineKey(line)
             val == LineVal(line)
         IN  IF DictHas(sec, key)
               THEN LET prev == DictGet(sec, key)
                    IN  [ok |-> TRUE,
                         sec |-> DictSet(sec,
                                   IF prev.t = "list"
                                     THEN ListVal(key, Append(prev.v, val))
                                     ELSE ListVal(key, <<prev.v[1], val>>))]
               ELSE [ok |-> TRUE, sec |-> DictSet(sec, StrVal(key, val))]
    ELSE IF ~DictHas(sec, KeyText)
           THEN [ok |-> TRUE, sec |-> DictSet(sec, ListVal(KeyText, <<line>>))]
         ELSE IF DictGet(sec, KeyText).t = "list"
           THEN [ok |-> TRUE,
                 sec |-> DictSet(sec,
                           ListVal(KeyText, Append(DictGet(sec, KeyText).v, line)))]
         ELSE [ok |-> FALSE, sec |-> sec]

RECURSIVE ApplyLines(_, _)
ApplyLines(sec, lines) ==
  IF lines = <<>> THEN [ok |-> TRUE, sec |-> sec]
  ELSE LET r == ApplyLine(sec, Head(lines))
       IN  IF r.ok THEN ApplyLines(r.sec, Tail(lines)) ELSE r

(***************************************************************************)
(* Flattening (lines 78-80)                                                *)
(***************************************************************************)
\* sec["text"] = "\n".join(sec["text"])
FlattenSection(sec) ==
  IF DictHas(sec, KeyText)
    THEN LET e == DictGet(sec, KeyText)
             parts == IF e.t = "list" THEN e.v ELSE CharsOf(e.v[1])
         IN  DictSet(sec, StrVal(KeyText, Join(<<"\n">>, parts)))
    ELSE sec

FlattenRecord(rec) ==
  [i \in 1..Len(rec) |->
     IF rec[i].t = "dict" THEN RecDict(rec[i].k, FlattenSection(rec[i].d))
     ELSE rec[i]]

(***************************************************************************)
(* find_narrative_field (lines 169-182) on a sample record: an entry is a  *)
(* key with the type of its value and, for a dict, whether it has "text"   *)
(***************************************************************************)
UpperLetters ==
  << "A","B","C","D","E","F","G","H","I","J","K","L","M",
     "N","O","P","Q","R","S","T","U","V","W","X","Y","Z" >>

LowerLetters ==
  << "a","b","c","d","e","f","g","h","i","j","k","l","m",
     "n","o","p","q","r","s","t","u","v","w","x","y","z" >>

\* str.lower()
Lower(s) ==
  [i \in 1..Len(s) |->
     IF \E n \in 1..26 : UpperLetters[n] = s[i]
       THEN LowerLetters[CHOOSE n \in 1..26 : UpperLetters[n] = s[i]]
       ELSE s[i]]

NameNarrative1 == <<"N","a","r","r","a","t","i","v","e",":"," ","1">>
NameUpper == <<"N","A","R","R","A","T","I","V","E">>
NameInner == <<"M","y"," ","n","a","r","r","a","t","i","v","e">>
NameSynopsis == <<"S","y","n","o","p","s","i","s">>

KeyNames == { NameNarrative1, NameUpper, NameInner, NameSynopsis }

\* the values: a dict with "text", a dict without it, a str
SampleValues ==
  { [t |-> "dict", text |-> TRUE], [t |-> "dict", text |-> FALSE],
    [t |-> "str", text |-> FALSE] }

SampleEntry(key, val) == [k |-> key, t |-> val.t, text |-> val.text]

\* the sample records: dicts of up to MaxKeys keys
Samples ==
  UNION { { f \in [1..n -> { SampleEntry(k, v) : k \in KeyNames,
                                                 v \in SampleValues }] :
              \A i, j \in 1..n : i # j => f[i].k # f[j].k } : n \in 0..MaxKeys }

\* isinstance(value, dict) and "text" in value
DictWithText(e) == e.t = "dict" /\ e.text

RECURSIVE FirstNarrativeKey(_, _)
\* lines 177-182: the loop over the items, and the default
FirstNarrativeKey(sample, i) ==
  IF i > Len(sample) THEN NameNarrative1
  ELSE IF Contains(Lower(sample[i].k), Lower(NameUpper))
            /\ DictWithText(sample[i])
    THEN sample[i].k
  ELSE FirstNarrativeKey(sample, i + 1)

\* the exact name is not looked for first
find_narrative_field_FirstWins(sample) == FirstNarrativeKey(sample, 1)

find_narrative_field(sample) ==
  IF DictHas(sample, NameNarrative1)
       /\ DictWithText(DictGet(sample, NameNarrative1))
    THEN NameNarrative1
  ELSE FirstNarrativeKey(sample, 1)

\* no field name is being determined
IdleF ==
  /\ incident_sample = <<>>
  /\ narrative_field_name = None
  /\ pcF = "off"

(***************************************************************************)
(* _extract_records as a walk over the document                            *)
(***************************************************************************)
IsHeading(i) == soup[i].cls = "acnheading"

\* the headings from position p on were not looked at
HeadingsAfter_SkipsNeighbour(p) ==
  { i \in (p + 2)..Len(soup) : IsHeading(i) }

\* the headings after position p, soup.find_all order
HeadingsAfter(p) == { i \in (p + 1)..Len(soup) : IsHeading(i) }

\* the classifier does not run in the extractor's process
IdleC ==
  /\ incidents = <<>>
  /\ outfile = [st |-> "absent", data |-> <<>>]
  /\ all_incidents_data = <<>>
  /\ incident_map = <<>>
  /\ has_acn = FALSE
  /\ start_idx = 0
  /\ end_idx = 0
  /\ cur = 0
  /\ target = 0
  /\ called = FALSE
  /\ response = "none"
  /\ pc = "off"
  /\ lastExit = "none"
  /\ runsLeft = 0
  /\ loopRuns = 0
  /\ doneRuns = 0
  /\ fresh = FALSE
  /\ covered = {}
  /\ overlap = FALSE
  /\ produced = <<>>
  /\ touched = {}

InitX ==
  /\ IdleC
  /\ IdleF
  /\ soup \in Documents
  /\ records = <<>>
  /\ record = <<>>
  /\ section_name = None
  /\ hpos = 0
  /\ spos = 0
  /\ pcX = "heading"

\* the record of the heading before is carried on
FreshRecord_Stale == record

\* line 45: record = {}
FreshRecord == <<>>

\* the section of the heading before stays current
SectionAtHeading_Kept == section_name

\* line 52: section_name = None
SectionAtHeading == None

\* line 44 exhausted: return records
ReturnRecords ==
  /\ pcX = "heading"
  /\ HeadingsAfter(hpos) = {}
  /\ pcX' = "done"
  /\ UNCHANGED <<soup, records, record, section_name, hpos, spos>>
  /\ UNCHANGED cvars
  /\ UNCHANGED fvars

\* lines 44-52: the next heading starts a record
StartRecord ==
  /\ pcX = "heading"
  /\ HeadingsAfter(hpos) # {}
  /\ LET h == CHOOSE i \in HeadingsAfter(hpos) :
                \A j \in HeadingsAfter(hpos) : i <= j
         acn_text == NodeText(soup[h])
     IN  /\ hpos' = h
         /\ spos' = h + 1
         /\ section_name' = SectionAtHeading
         /\ IF Contains(acn_text, <<":">>)
              THEN LET toks == SplitWs(SplitFirst(acn_text, <<":">>)[2])
                   IN  IF toks = <<>>
                         THEN /\ pcX' = "raised"
                              /\ record' = FreshRecord
                         ELSE /\ pcX' = "siblings"
                              /\ record' = DictSet(FreshRecord,
                                                   RecStr(KeyACN, toks[1]))
              ELSE /\ pcX' = "siblings"
                   /\ record' = FreshRecord
  /\ UNCHANGED <<soup, records>>
  /\ UNCHANGED cvars
  /\ UNCHANGED fvars

\* lines 53-56: the siblings end, or the next heading breaks the loop
EndSiblings ==
  /\ pcX = "siblings"
  /\ IF spos > Len(soup) THEN TRUE ELSE IsHeading(spos)
  /\ pcX' = "flatten"
  /\ UNCHANGED <<soup, records, record, section_name, hpos, spos>>
  /\ UNCHANGED cvars
  /\ UNCHANGED fvars

\* lines 58-60: a section marker
VisitSection ==
  /\ pcX = "siblings"
  /\ spos <= Len(soup)
  /\ soup[spos].cls = "acnsection"
  /\ LET name == RStripColon(NodeText(soup[spos]))
     IN  /\ section_name' = name
         /\ record' = DictSet(record, RecDict(name, <<>>))
  /\ spos' = spos + 1
  /\ UNCHANGED <<soup, records, hpos, pcX>>
  /\ UNCHANGED cvars
  /\ UNCHANGED fvars

\* lines 61-75: a data block under a truthy section name
VisitData ==
  /\ pcX = "siblings"
  /\ spos <= Len(soup)
  /\ soup[spos].cls = "acndata"
  /\ section_name # None /\ section_name # <<>>
  /\ LET lines == _parse_acndata_block(soup[spos].raw)
         r == ApplyLines(DictGet(record, section_name).d, lines)
     IN  /\ record' = DictSet(record, RecDict(section_name, r.sec))
         /\ pcX' = IF r.ok THEN "siblings" ELSE "raised"
  /\ spos' = spos + 1
  /\ UNCHANGED <<soup, records, section_name, hpos>>
  /\ UNCHANGED cvars
  /\ UNCHANGED fvars

\* a data block without a truthy section name, or any other node
VisitIgnored ==
  /\ pcX = "siblings"
  /\ spos <= Len(soup)
  /\ \/ soup[spos].cls = "acndata" /\ (section_name = None \/ section_name = <<>>)
     \/ soup[spos].cls \notin {"acnheading", "acnsection", "acndata"}
  /\ spos' = spos + 1
  /\ UNCHANGED <<soup, records, record, section_name, hpos, pcX>>
  /\ UNCHANGED cvars
  /\ UNCHANGED fvars

\* lines 77-82
FinishRecord ==
  /\ pcX = "flatten"
  /\ records' = Append(records, FlattenRecord(record))
  /\ pcX' = "heading"
  /\ UNCHANGED <<soup, record, section_name, hpos, spos>>
  /\ UNCHANGED cvars
  /\ UNCHANGED fvars

NextX ==
  \/ ReturnRecords
  \/ StartRecord
  \/ EndSiblings
  \/ VisitSection
  \/ VisitData
  \/ VisitIgnored
  \/ FinishRecord

SpecX == InitX /\ [][NextX]_vars

(***************************************************************************)
(* The batch classifier (process_asrs_hfacs.py)                            *)
(***************************************************************************)

\* "ACN" not in incident
NoACN == 0

\* an identifier no record of the input carries
ForeignACN == 99

\* the value of incident.get(narrative_field_name)
Narr(t, v) == [t |-> t, v |-> v]

\* "hfacs_classification" not in incident
NoHfacs == [set |-> FALSE, val |-> <<>>]

Hfacs(val) == [set |-> TRUE, val |-> val]

Incident(acn, narr) == [acn |-> acn, narr |-> narr, hfacs |-> NoHfacs]

IncidentPool ==
  { Incident(7, Narr("dict_str", << <<"a","b">> >>)),
    Incident(8, Narr("dict_str", << <<" ">> >>)),
    Incident(NoACN, Narr("dict_list", << <<>>, <<" ">> >>)),
    Incident(7, Narr("str", << <<"a","b">> >>)) }

\* a long export: unique identifiers; every fifth narrative is a text, the
\* others are missing or empty
BatchInput(n) ==
  [i \in 1..n |->
     Incident(i, IF i % CheckpointEvery = 0
                   THEN Narr("dict_list", << <<"a">>, <<>> >>)
                 ELSE IF i % 2 = 0 THEN Narr("missing", <<>>)
                 ELSE Narr("dict_str", << <<>> >>))]

\* an output file left by a run over an older export: a record less, or
\* (long exports) another identifier on one record
StaleFiles(inc) ==
  { SubSeq(inc, 1, Len(inc) - 1) : k \in { x \in {1} : Len(inc) >= 2 } }
  \cup { [inc EXCEPT ![k].acn = ForeignACN] :
           k \in { x \in 1..Len(inc) : Len(inc) > MaxRecords } }

NoFile == [st |-> "absent", data |-> <<>>]

JsonFile(data) == [st |-> "json", data |-> data]

\* a file that json.load rejects: the beginning of a JSON text
CorruptFile == [st |-> "corrupt", data |-> <<>>]

\* the service's outcomes (lines 235-276)
Responses == { "list", "nonlist", "garbage", "apierror" }

NoResponse == "none"

\* one taxonomy entry the service returns for a narrative
TaxonomyEntry(narrative_text) ==
  [error |-> "<absent>", raw_output |-> "<absent>", about |-> narrative_text]

ErrorDescriptor(error, raw_output) ==
  [error |-> error, raw_output |-> raw_output, about |-> <<>>]

\* IsBlank without the strip(): "not narrative" alone
IsBlank_NoStrip(narrative) == narrative = <<>>

\* not narrative or not narrative.strip()   (lines 227 and 409)
IsBlank(narrative) == narrative = <<>> \/ Strip(narrative) = <<>>

\* lines 399-407: the narrative text of the record that is updated
NarrativeText(incident) ==
  LET obj == incident.narr
  IN  CASE obj.t = "dict_str" -> obj.v[1]
        [] obj.t = "dict_list" -> Join(<<"\n">>, obj.v)
        [] obj.t = "str" -> obj.v[1]
        [] OTHER -> <<>>

\* get_hfacs_classification_from_llm without the handlers of lines 271-276:
\* a service failure leaves the function as an exception
get_hfacs_ServiceErrorEscapes(narrative_text, resp) ==
  IF narrative_text = <<>> \/ Strip(narrative_text) = <<>>
    THEN [ok |-> TRUE, called |-> FALSE, hfacs |-> <<>>]
  ELSE CASE resp = "list" ->
              [ok |-> TRUE, called |-> TRUE,
               hfacs |-> << TaxonomyEntry(narrative_text) >>]
         [] resp = "nonlist" ->
              [ok |-> TRUE, called |-> TRUE,
               hfacs |-> << ErrorDescriptor("LLM did not return a list",
                                            "nonlist") >>]
         [] resp = "garbage" ->
              [ok |-> TRUE, called |-> TRUE,
               hfacs |-> << ErrorDescriptor("Failed to parse LLM JSON response",
                                            "garbage") >>]
         [] OTHER -> [ok |-> FALSE, called |-> TRUE, hfacs |-> <<>>]

\* lines 219-276: the classification, whether the service was called, and
\* whether the function returned (ok) rather than raised
get_hfacs_classification_from_llm(narrative_text, resp) ==
  IF IsBlank(narrative_text)
    THEN [ok |-> TRUE, called |-> FALSE, hfacs |-> <<>>]
  ELSE CASE resp = "list" ->
              [ok |-> TRUE, called |-> TRUE,
               hfacs |-> << TaxonomyEntry(narrative_text) >>]
         [] resp = "nonlist" ->
              [ok |-> TRUE, called |-> TRUE,
               hfacs |-> << ErrorDescriptor("LLM did not return a list",
                                            "nonlist") >>]
         [] resp = "garbage" ->
              [ok |-> TRUE, called |-> TRUE,
               hfacs |-> << ErrorDescriptor("Failed to parse LLM JSON response",
                                            "garbage") >>]
         [] OTHER ->
              [ok |-> TRUE, called |-> TRUE,
               hfacs |-> << ErrorDescriptor("OpenAI API Error", "<absent>") >>]

\* --end_index not given
NoneArg == -1

\* lines 308-316: the end of the range that is processed
EffectiveEnd(s, e) ==
  IF e = NoneArg THEN Len(incidents)
  ELSE IF e <= s \/ e > Len(incidents) THEN Len(incidents)
  ELSE e

\* lines 367-372: the identifier map; a later record replaces an earlier one
RECURSIVE BuildMap(_, _, _)
BuildMap(data, i, m) ==
  IF i > Len(data) THEN m
  ELSE BuildMap(data, i + 1, DictSet(m, [k |-> data[i].acn, idx |-> i]))

\* line 368
HasAcn(data) == \A i \in 1..Len(data) : data[i].acn # NoACN

\* lines 388-396: the position (from 1) in the master list of the record that
\* is updated for the slice record at original index orig, 0 when not found
Lookup(orig) ==
  LET acn == incidents[orig + 1].acn
  IN  IF has_acn /\ DictHas(incident_map, acn)
        THEN DictGet(incident_map, acn).idx
      ELSE IF ~has_acn /\ orig < Len(all_incidents_data)
        THEN orig + 1
      ELSE 0

\* line 421: the records handled so far call for a save
SaveDue(done) ==
  done % CheckpointEvery = 0 \/ done = end_idx - start_idx

InitC ==
  /\ \E n \in 1..MaxBatch :
       incidents \in IF n <= MaxRecords THEN [1..n -> IncidentPool]
                                        ELSE { BatchInput(n) }
  /\ outfile \in {NoFile} \cup { JsonFile(d) : d \in StaleFiles(incidents) }
  /\ runsLeft = IF Len(incidents) <= MaxRecords THEN MaxRuns ELSE 1
  /\ all_incidents_data = <<>>
  /\ incident_map = <<>>
  /\ has_acn = FALSE
  /\ start_idx = 0
  /\ end_idx = 0
  /\ cur = 0
  /\ target = 0
  /\ called = FALSE
  /\ response = NoResponse
  /\ pc = "idle"
  /\ lastExit = "none"
  /\ loopRuns = 0
  /\ doneRuns = 0
  /\ fresh = FALSE
  /\ covered = {}
  /\ overlap = FALSE
  /\ produced = [i \in 1..Len(incidents) |-> NoHfacs]
  /\ touched = {}

CanStart == pc = "idle"

\* what the user may type at the prompt of line 349
Answers ==
  { <<"y","e","s">>, <<"Y","E","S">>, <<"Y","e","s">>, <<"y">>, <<"n","o">>,
    <<>> }

\* the prompt is not looked at
Proceeds_Unasked(estimate_only, confirmation) == ~estimate_only

\* lines 345-352: the run goes on to the loop
Proceeds(estimate_only, confirmation) ==
  ~estimate_only /\ Lower(confirmation) = <<"y","e","s">>

\* some --estimate_only and answer let the run go on to the loop
SomeArgsProceed == \E a \in BOOLEAN \X Answers : Proceeds(a[1], a[2])

\* some --estimate_only and answer end the run at lines 345-352
SomeArgsEnd == \E a \in BOOLEAN \X Answers : ~Proceeds(a[1], a[2])

\* a process that ends before line 356 holds no master list
NoLoopState ==
  /\ all_incidents_data' = <<>>
  /\ incident_map' = <<>>
  /\ has_acn' = FALSE
  /\ start_idx' = 0
  /\ end_idx' = 0
  /\ cur' = 0
  /\ target' = 0
  /\ called' = FALSE
  /\ response' = NoResponse
  /\ touched' = {}

\* lines 291-313: no API key, or start_index out of bounds: return
RunRejected ==
  /\ CanStart
  /\ { a \in BOOLEAN \X (0..Len(incidents)) :
         ~a[1] \/ ~(0 <= a[2] /\ a[2] < Len(incidents)) } # {}
  /\ pc' = "idle"
  /\ lastExit' = "rejected"
  /\ NoLoopState
  /\ UNCHANGED xvars
  /\ UNCHANGED fvars
  /\ UNCHANGED <<incidents, outfile, runsLeft, loopRuns, doneRuns, fresh, covered,
                 overlap, produced>>

\* line 330: the narrative field of the first record of the range is a str,
\* .get("text") raises AttributeError
RunRaisesInEstimate ==
  /\ CanStart
  /\ { s \in 0..(Len(incidents) - 1) : incidents[s + 1].narr.t = "str" } # {}
  /\ pc' = "idle"
  /\ lastExit' = "raised"
  /\ NoLoopState
  /\ UNCHANGED xvars
  /\ UNCHANGED fvars
  /\ UNCHANGED <<incidents, outfile, runsLeft, loopRuns, doneRuns, fresh, covered,
                 overlap, produced>>

\* lines 345-352: --estimate_only, or the answer is not "yes": return
RunDeclined ==
  /\ CanStart
  /\ { s \in 0..(Len(incidents) - 1) : incidents[s + 1].narr.t # "str" } # {}
  /\ SomeArgsEnd
  /\ pc' = "idle"
  /\ lastExit' = "declined"
  /\ NoLoopState
  /\ UNCHANGED xvars
  /\ UNCHANGED fvars
  /\ UNCHANGED <<incidents, outfile, runsLeft, loopRuns, doneRuns, fresh, covered,
                 overlap, produced>>

\* lines 297-378: the range is valid and confirmed; the master list is loaded
\* from the output file when it exists, else copied from the input
StartLoop ==
  /\ CanStart
  /\ runsLeft > 0
  /\ outfile.st # "corrupt"
  /\ SomeArgsProceed
  /\ \E r \in { <<s, EffectiveEnd(s, e)>> :
                   s \in 0..(Len(incidents) - 1),
                   e \in {NoneArg} \cup 0..(Len(incidents) + 1) } :
       LET master == IF outfile.st = "json" THEN outfile.data ELSE incidents
           s == r[1]
           e == r[2]
       IN  /\ incidents[s + 1].narr.t # "str"
           /\ start_idx' = s
           /\ end_idx' = e
           /\ all_incidents_data' = master
           /\ has_acn' = HasAcn(master)
           /\ incident_map' = IF HasAcn(master) THEN BuildMap(master, 1, <<>>)
                                                ELSE <<>>
           /\ IF loopRuns = doneRuns
                THEN /\ covered' = covered \cup (s + 1)..e
                     /\ overlap' = (overlap \/ covered \cap (s + 1)..e # {})
                     /\ fresh' = IF loopRuns = 0 THEN outfile.st = "absent"
                                                 ELSE fresh
                ELSE UNCHANGED <<covered, overlap, fresh>>
  /\ cur' = 0
  /\ target' = 0
  /\ called' = FALSE
  /\ response' = NoResponse
  /\ touched' = {}
  /\ pc' = "loop"
  /\ lastExit' = "none"
  /\ runsLeft' = runsLeft - 1
  /\ loopRuns' = loopRuns + 1
  /\ UNCHANGED doneRuns
  /\ UNCHANGED xvars
  /\ UNCHANGED fvars
  /\ UNCHANGED <<incidents, outfile, produced>>

InLoop == pc = "loop" /\ cur < end_idx - start_idx

\* a failed lookup ends the run
SkipRecord_Aborts ==
  /\ InLoop
  /\ Lookup(start_idx + cur) = 0
  /\ pc' = "crashed"
  /\ lastExit' = "raised"
  /\ UNCHANGED xvars
  /\ UNCHANGED fvars
  /\ UNCHANGED <<incidents, outfile, all_incidents_data, incident_map, has_acn,
                 start_idx, end_idx, cur, target, called, response, runsLeft,
                 loopRuns, doneRuns, fresh, covered, overlap, produced, touched>>

\* lines 394-396: the record is not found in the master list: continue
SkipRecord ==
  /\ InLoop
  /\ Lookup(start_idx + cur) = 0
  /\ cur' = cur + 1
  /\ target' = 0
  /\ called' = FALSE
  /\ response' = NoResponse
  /\ UNCHANGED xvars
  /\ UNCHANGED fvars
  /\ UNCHANGED <<incidents, outfile, all_incidents_data, incident_map, has_acn,
                 start_idx, end_idx, pc, lastExit, runsLeft, loopRuns, doneRuns, fresh,
                 covered, overlap, produced, touched>>

\* lines 409-411 and 421-423: blank narrative, empty classification
ClassifyBlank ==
  /\ InLoop
  /\ Lookup(start_idx + cur) # 0
  /\ LET t == Lookup(start_idx + cur)
         master == [all_incidents_data EXCEPT ![t].hfacs = Hfacs(<<>>)]
     IN  /\ IsBlank(NarrativeText(all_incidents_data[t]))
         /\ all_incidents_data' = master
         /\ target' = t
         /\ produced' = IF loopRuns = doneRuns + 1
                          THEN [produced EXCEPT
                                  ![start_idx + cur + 1] = Hfacs(<<>>)]
                          ELSE produced
         /\ touched' = touched \cup {t}
         /\ outfile' = IF SaveDue(cur + 1) THEN JsonFile(master) ELSE outfile
  /\ cur' = cur + 1
  /\ called' = FALSE
  /\ response' = NoResponse
  /\ UNCHANGED xvars
  /\ UNCHANGED fvars
  /\ UNCHANGED <<incidents, incident_map, has_acn, start_idx, end_idx, pc,
                 lastExit, runsLeft, loopRuns, doneRuns, fresh, covered, overlap>>

\* lines 412-423: the narrative goes to the service
ClassifyWithService ==
  /\ InLoop
  /\ Lookup(start_idx + cur) # 0
  /\ \E resp \in Responses :
       LET t == Lookup(start_idx + cur)
           r == get_hfacs_classification_from_llm(
                  NarrativeText(all_incidents_data[t]), resp)
           master == [all_incidents_data EXCEPT ![t].hfacs = Hfacs(r.hfacs)]
       IN  /\ ~IsBlank(NarrativeText(all_incidents_data[t]))
           /\ target' = t
           /\ called' = r.called
           /\ response' = IF r.called THEN resp ELSE NoResponse
           /\ IF r.ok
                THEN /\ all_incidents_data' = master
                     /\ produced' = IF loopRuns = doneRuns + 1
                                      THEN [produced EXCEPT
                                              ![start_idx + cur + 1]
                                                 = Hfacs(r.hfacs)]
                                      ELSE produced
                     /\ touched' = touched \cup {t}
                     /\ outfile' = IF SaveDue(cur + 1) THEN JsonFile(master)
                                                       ELSE outfile
                     /\ cur' = cur + 1
                     /\ pc' = "loop"
                     /\ lastExit' = "none"
                ELSE /\ pc' = "crashed"
                     /\ lastExit' = "raised"
                     /\ UNCHANGED <<all_incidents_data, produced, touched,
                                    outfile, cur>>
  /\ UNCHANGED xvars
  /\ UNCHANGED fvars
  /\ UNCHANGED <<incidents, incident_map, has_acn, start_idx, end_idx,
                 runsLeft, loopRuns, doneRuns, fresh, covered, overlap>>

\* lines 428-431: the loop is over, final save; the process ends, the master
\* list it wrote and the positions it updated stay on record
FinalSave ==
  /\ pc = "loop"
  /\ cur = end_idx - start_idx
  /\ outfile' = JsonFile(all_incidents_data)
  /\ pc' = "idle"
  /\ lastExit' = "done"
  /\ incident_map' = <<>>
  /\ has_acn' = FALSE
  /\ start_idx' = 0
  /\ end_idx' = 0
  /\ cur' = 0
  /\ target' = 0
  /\ called' = FALSE
  /\ response' = NoResponse
  /\ UNCHANGED xvars
  /\ UNCHANGED fvars
  /\ doneRuns' = doneRuns + 1
  /\ UNCHANGED <<incidents, all_incidents_data, runsLeft, loopRuns, fresh,
                 covered, overlap, produced, touched>>

\* the history of ranges and classifications is kept for as long as every
\* run has reached the end of main (loopRuns = doneRuns)
NoHistory ==
  /\ fresh' = FALSE
  /\ covered' = {}
  /\ overlap' = FALSE
  /\ produced' = [i \in 1..Len(incidents) |-> NoHfacs]

\* the process is terminated in the loop while it is not writing: what it
\* holds in memory is gone, the output file is as the last save left it
Terminated ==
  /\ pc = "loop"
  /\ pc' = "idle"
  /\ lastExit' = "killed"
  /\ NoLoopState
  /\ NoHistory
  /\ UNCHANGED xvars
  /\ UNCHANGED fvars
  /\ UNCHANGED <<incidents, outfile, runsLeft, loopRuns, doneRuns>>

\* the process is at a save_incidents call: the checkpoint of lines 421-423
\* after the record just handled, or the final save of lines 428-431
AtSave ==
  /\ pc = "loop"
  /\ \/ cur = end_idx - start_idx
     \/ cur > 0 /\ target # 0 /\ SaveDue(cur)

\* lines 213-216: open(filepath, 'w') has truncated the file and json.dump
\* has not finished when the process is terminated
TerminatedInSave ==
  /\ AtSave
  /\ outfile' = CorruptFile
  /\ pc' = "idle"
  /\ lastExit' = "killed"
  /\ NoLoopState
  /\ NoHistory
  /\ UNCHANGED xvars
  /\ UNCHANGED fvars
  /\ UNCHANGED <<incidents, runsLeft, loopRuns, doneRuns>>

\* lines 356-358 and 205-207: the output file exists and is not valid JSON,
\* load_incidents prints an error and calls exit(1)
RunExitsOnLoad ==
  /\ CanStart
  /\ outfile.st = "corrupt"
  /\ SomeArgsProceed
  /\ { s \in 0..(Len(incidents) - 1) : incidents[s + 1].narr.t # "str" } # {}
  /\ pc' = "idle"
  /\ lastExit' = "load_failed"
  /\ NoLoopState
  /\ UNCHANGED xvars
  /\ UNCHANGED fvars
  /\ UNCHANGED <<incidents, outfile, runsLeft, loopRuns, doneRuns, fresh,
                 covered, overlap, produced>>

NextC ==
  \/ RunRejected
  \/ RunRaisesInEstimate
  \/ RunDeclined
  \/ StartLoop
  \/ SkipRecord
  \/ ClassifyBlank
  \/ ClassifyWithService
  \/ FinalSave
  \/ Terminated
  \/ TerminatedInSave
  \/ RunExitsOnLoad

\* the extractor does not run in the classifier's process
IdleX ==
  /\ soup = <<>>
  /\ records = <<>>
  /\ record = <<>>
  /\ section_name = None
  /\ hpos = 0
  /\ spos = 0
  /\ pcX = "off"

Init == InitC /\ IdleX /\ IdleF

Next == NextC

Spec == Init /\ [][Next]_vars

InitF ==
  /\ IdleX
  /\ IdleC
  /\ incident_sample \in Samples
  /\ narrative_field_name = None
  /\ pcF = "args"

\* line 301 with --narrative_field given: the name is taken as it is
GivenField ==
  /\ pcF = "args"
  /\ \E name \in KeyNames : narrative_field_name' = name
  /\ pcF' = "given"
  /\ UNCHANGED incident_sample
  /\ UNCHANGED <<xvars, cvars>>

\* lines 302-303: no name given, find_narrative_field(incidents[0])
DetectField ==
  /\ pcF = "args"
  /\ narrative_field_name' = find_narrative_field(incident_sample)
  /\ pcF' = "detected"
  /\ UNCHANGED incident_sample
  /\ UNCHANGED <<xvars, cvars>>

NextF ==
  \/ GivenField
  \/ DetectField

SpecF == InitF /\ [][NextF]_vars

(***************************************************************************)
(* What the document says, read off the document itself                    *)
(***************************************************************************)
AllHeadings == { i \in 1..Len(soup) : IsHeading(i) }

\* the position of the j-th heading, the one records[j] is built from
HeadingAt(j) ==
  CHOOSE h \in AllHeadings : Cardinality({ g \in AllHeadings : g <= h }) = j

SectionNameAt(p) == RStripColon(NodeText(soup[p]))

RECURSIVE MarkersFrom(_, _)
\* how many markers named name stand between position p and the next heading
MarkersFrom(p, name) ==
  IF p > Len(soup) THEN 0
  ELSE IF IsHeading(p) THEN 0
  ELSE (IF soup[p].cls = "acnsection" /\ SectionNameAt(p) = name THEN 1 ELSE 0)
       + MarkersFrom(p + 1, name)

RECURSIVE LinesFrom(_, _, _, _, _)
\* the logical lines, in document order, of the data blocks that stand under
\* a marker named name between position p and the next heading; under is the
\* name of the latest marker, seen the number of markers named name passed;
\* occ = 0 takes every occurrence, occ = n only the n-th
LinesFrom(p, under, name, seen, occ) ==
  IF p > Len(soup) THEN <<>>
  ELSE IF IsHeading(p) THEN <<>>
  ELSE IF soup[p].cls = "acnsection"
    THEN LinesFrom(p + 1, SectionNameAt(p), name,
                   IF SectionNameAt(p) = name THEN seen + 1 ELSE seen, occ)
  ELSE IF soup[p].cls = "acndata" /\ under = name /\ (occ = 0 \/ occ = seen)
    THEN _parse_acndata_block(soup[p].raw)
         \o LinesFrom(p + 1, under, name, seen, occ)
  ELSE LinesFrom(p + 1, under, name, seen, occ)

\* the lines under the first marker named name of the j-th record
LinesOfFirst(j, name) == LinesFrom(HeadingAt(j) + 1, None, name, 0, 1)

\* the lines under the last marker named name of the j-th record
LinesOfLast(j, name) ==
  LinesFrom(HeadingAt(j) + 1, None, name, 0,
            MarkersFrom(HeadingAt(j) + 1, name))

IsKv(line) == Contains(line, KvSep)

RECURSIVE ValuesOf(_, _)
\* the right-hand sides of the key/value lines labelled key, in order
ValuesOf(key, lines) ==
  IF lines = <<>> THEN <<>>
  ELSE (IF IsKv(Head(lines)) /\ LineKey(Head(lines)) = key
          THEN << LineVal(Head(lines)) >> ELSE <<>>)
       \o ValuesOf(key, Tail(lines))

RECURSIVE NarrativeOf(_)
\* the lines without the separator, in order
NarrativeOf(lines) ==
  IF lines = <<>> THEN <<>>
  ELSE (IF IsKv(Head(lines)) THEN <<>> ELSE << Head(lines) >>)
       \o NarrativeOf(Tail(lines))

LabelsOf(lines) ==
  { LineKey(lines[i]) : i \in { n \in 1..Len(lines) : IsKv(lines[n]) } }

\* the names of the sections of a finished record
SectionsOf(rec) == { rec[i].k : i \in { n \in 1..Len(rec) : rec[n].t = "dict" } }

\* the sections with a non-empty name
NamedSectionsOf(rec) == SectionsOf(rec) \ { <<>> }

Sec(rec, name) == DictGet(rec, name).d

\* the value the promotion rule gives a label with the values vals
Promoted(key, vals) ==
  IF Len(vals) = 1 THEN StrVal(key, vals[1]) ELSE ListVal(key, vals)

\* a line's content is found in the section
Present(sec, line) ==
  IF IsKv(line)
    THEN /\ DictHas(sec, LineKey(line))
         /\ \E i \in 1..Len(DictGet(sec, LineKey(line)).v) :
              DictGet(sec, LineKey(line)).v[i] = LineVal(line)
    ELSE /\ DictHas(sec, KeyText)
         /\ Contains(DictGet(sec, KeyText).v[1], line)

(***************************************************************************)
(* Claims about _extract_records                                           *)
(***************************************************************************)

\* C1: when a section marker with the same (non-empty) name appears a second
\* time within one record, what was collected under the first occurrence is
\* still present in that section of the finished record.
C1_ReentryKeepsFirst ==
  \A j \in 1..Len(records) :
    \A name \in NamedSectionsOf(records[j]) :
      MarkersFrom(HeadingAt(j) + 1, name) >= 2 =>
        \A i \in 1..Len(LinesOfFirst(j, name)) :
          Present(Sec(records[j], name), LinesOfFirst(j, name)[i])

\* C3: _extract_records never raises, whatever the document.
C3_NeverRaises == pcX # "raised"

\* C5: in one section of a finished record a label with one occurrence maps
\* to its value as a string, and a label with n >= 2 occurrences maps to the
\* list of all n values in document order.
C5_PromotionKeepsAll ==
  \A j \in 1..Len(records) :
    \A name \in NamedSectionsOf(records[j]) :
      \A key \in LabelsOf(LinesOfLast(j, name)) :
        /\ DictHas(Sec(records[j], name), key)
        /\ DictGet(Sec(records[j], name), key)
             = Promoted(key, ValuesOf(key, LinesOfLast(j, name)))

\* C7: in every section of every finished record the narrative lines are
\* stored under "text" as one newline-joined string in document order, and a
\* section without narrative lines has no "text" key.
C7_NarrativeUnderText ==
  \A j \in 1..Len(records) :
    \A name \in NamedSectionsOf(records[j]) :
      LET narr == NarrativeOf(LinesOfLast(j, name))
          sec == Sec(records[j], name)
      IN  IF narr = <<>> THEN ~DictHas(sec, KeyText)
          ELSE /\ DictHas(sec, KeyText)
               /\ DictGet(sec, KeyText) = StrVal(KeyText, Join(<<"\n">>, narr))

\* C8: a section whose data lines each contain " : " exactly once has exactly
\* one key per distinct trimmed label, and the value is the trimmed right-hand
\* side (the list of them when the label repeats), also after flattening.
C8_OneKeyPerLabel ==
  \A j \in 1..Len(records) :
    \A name \in NamedSectionsOf(records[j]) :
      LET lines == LinesOfLast(j, name)
          sec == Sec(records[j], name)
      IN  (\A i \in 1..Len(lines) : Cardinality(Occurrences(lines[i], KvSep)) = 1)
            => /\ DictKeys(sec) = LabelsOf(lines)
               /\ \A key \in LabelsOf(lines) :
                    DictGet(sec, key) = Promoted(key, ValuesOf(key, lines))

\* the text of the j-th heading
HeadingText(j) == NodeText(soup[HeadingAt(j)])

\* the whitespace-delimited tokens after the first colon of the j-th heading
TokensAfterColon(j) == SplitWs(SplitFirst(HeadingText(j), <<":">>)[2])

\* C11: the identifier of a finished record is the first whitespace-delimited
\* token after the first colon of its heading ("ACN: 7 (1)" gives "7"), and
\* the record of a heading without a colon has no identifier key at all.
C11_IdentifierFromHeading ==
  \A j \in 1..Len(records) :
    IF Contains(HeadingText(j), <<":">>)
      THEN /\ TokensAfterColon(j) # <<>>
           /\ DictHas(records[j], KeyACN)
           /\ DictGet(records[j], KeyACN)
                = RecStr(KeyACN, TokensAfterColon(j)[1])
           /\ soup[HeadingAt(j)] = HeadingFull
                => DictGet(records[j], KeyACN).s = <<"7">>
      ELSE ~DictHas(records[j], KeyACN)

\* the j-th record carries a string identifier
HasStringId(rec) == DictHas(rec, KeyACN) /\ DictGet(rec, KeyACN).t = "str"

\* C12: _extract_records returns one record per heading node, in the order
\* of the headings (the record being built and the j-th finished record
\* belong to the j-th heading), and the empty list for a document without
\* headings, whatever else it contains.
C12_OneRecordPerHeading ==
  /\ Len(records) <= Cardinality(AllHeadings)
  /\ pcX \in {"siblings", "flatten"}
       => /\ Len(records) < Cardinality(AllHeadings)
          /\ hpos = HeadingAt(Len(records) + 1)
  /\ (pcX = "heading" /\ records # <<>>) => hpos = HeadingAt(Len(records))
  /\ pcX = "done" => Len(records) = Cardinality(AllHeadings)
  /\ AllHeadings = {} => records = <<>>
  /\ \A j \in 1..Len(records) :
       HasStringId(records[j])
         <=> /\ Contains(HeadingText(j), <<":">>)
             /\ MarkersFrom(HeadingAt(j) + 1, KeyACN) = 0

\* two records were returned, the first for a heading without a colon and
\* the second for a heading with an identifier
C12_Witness ==
  /\ pcX = "done"
  /\ Len(records) = 2
  /\ soup[HeadingAt(1)] = HeadingNoColon
  /\ soup[HeadingAt(2)] = HeadingFull
  /\ ~HasStringId(records[1])
  /\ HasStringId(records[2])

\* the walk of the current record has passed no section marker yet
NoMarkerYet ==
  /\ pcX \in {"siblings", "flatten"}
  /\ \A p \in (hpos + 1)..(spos - 1) : soup[p].cls # "acnsection"

\* C13: as long as no section marker has followed the heading there is no
\* current section (it is reset at the heading) and the record holds nothing
\* but its identifier, whatever data blocks were passed; a finished record
\* whose heading no marker follows has no section.
C13_DataBeforeSectionIgnored ==
  /\ NoMarkerYet
       => /\ section_name = None
          /\ SectionsOf(record) = {}
          /\ Len(record) <= 1
          /\ \A i \in 1..Len(record) : record[i].k = KeyACN
  /\ \A j \in 1..Len(records) :
       (\A name \in {KeyACN, <<"S">>, <<>>} :
          MarkersFrom(HeadingAt(j) + 1, name) = 0)
         => SectionsOf(records[j]) = {} /\ Len(records[j]) <= 1

\* the first sibling of a second heading is a data block; it was passed and
\* nothing came of it, though the record before ended in a named section
C13_Witness ==
  /\ pcX = "siblings"
  /\ Len(records) = 1
  /\ NamedSectionsOf(records[1]) # {}
  /\ soup[hpos - 1].cls = "acnsection"
  /\ spos = hpos + 2
  /\ soup[hpos + 1].cls = "acndata"
  /\ section_name = None
  /\ SectionsOf(record) = {}

\* every logical line under a marker named name in the span of heading j
LinesInSpan(j, name) == LinesFrom(HeadingAt(j) + 1, None, name, 0, 0)

\* the strings of a sequence, as a set
Elems(l) == { l[i] : i \in 1..Len(l) }

\* the section sec holds nothing that the lines do not give
FromLines(sec, lines) ==
  \A i \in 1..Len(sec) :
    IF sec[i].k = KeyText
      THEN NarrativeOf(lines) # <<>> \/ KeyText \in LabelsOf(lines)
      ELSE /\ sec[i].k \in LabelsOf(lines)
           /\ Elems(sec[i].v) \subseteq Elems(ValuesOf(sec[i].k, lines))

\* C16: every section of a finished record is named by a section marker in
\* the span of the record's heading (after it, before the next heading or
\* the end), every key and value in it comes from the data blocks under such
\* a marker in that span, and the only other entry is the identifier.
C16_SectionsFromOwnSpan ==
  \A j \in 1..Len(records) :
    /\ \A name \in SectionsOf(records[j]) :
         /\ MarkersFrom(HeadingAt(j) + 1, name) >= 1
         /\ FromLines(Sec(records[j], name), LinesInSpan(j, name))
    /\ \A i \in 1..Len(records[j]) :
         records[j][i].t # "dict" => records[j][i].k = KeyACN

\* two records were returned: the first has a filled section, the second,
\* whose heading nothing follows, has none
C16_Witness ==
  /\ pcX = "done"
  /\ Len(records) = 2
  /\ \E name \in NamedSectionsOf(records[1]) : Sec(records[1], name) # <<>>
  /\ SectionsOf(records[2]) = {}

RECURSIVE LatestMarker(_)
\* the name of the nearest section marker before position p in the walk of
\* the current record, None when there is none
LatestMarker(p) ==
  IF p <= hpos THEN None
  ELSE IF soup[p].cls = "acnsection" THEN SectionNameAt(p)
  ELSE LatestMarker(p - 1)

\* the keys the lines give a section
KeysOfLines(lines) ==
  LabelsOf(lines) \cup (IF NarrativeOf(lines) # <<>> THEN {KeyText} ELSE {})

\* records[j], for the sections named in names, holds what the data blocks
\* under the latest marker of each name give
SectionsTakeData(j, names) ==
  \A name \in names :
    DictKeys(Sec(records[j], name)) = KeysOfLines(LinesOfLast(j, name))

\* C19: during the walk the current section is the one named by the most
\* recent marker since the heading, whatever the name, the empty one
\* included, and in the finished record every section holds the keys of the
\* data blocks that followed its marker: none of them is dropped.
C19_DataGoesToCurrentSection ==
  /\ pcX \in {"siblings", "flatten"} => section_name = LatestMarker(spos - 1)
  /\ \A j \in 1..Len(records) : SectionsTakeData(j, SectionsOf(records[j]))

NotEmpty(line) == line # <<>>

\* the lines whose plain text is not empty (get_text has stripped it)
WithText(lines) == SelectSeq(lines, NotEmpty)

\* C20: a logical line whose plain text is empty or blank, a line of markup
\* only included, leaves no trace: in a section without a line labelled
\* "text" the narrative is the newline-joined lines that have text, and there
\* is no "text" key when no such narrative line exists.
C20_BlankLinesDropped ==
  \A j \in 1..Len(records) :
    \A name \in NamedSectionsOf(records[j]) :
      LET lines == LinesOfLast(j, name)
          narr == NarrativeOf(WithText(lines))
          sec == Sec(records[j], name)
      IN  KeyText \notin LabelsOf(lines)
            => IF narr = <<>> THEN ~DictHas(sec, KeyText)
               ELSE /\ DictHas(sec, KeyText)
                    /\ DictGet(sec, KeyText)
                         = StrVal(KeyText, Join(<<"\n">>, narr))

\* the string s is the value of some key of the section
StoredAsString(sec, s) ==
  \E i \in 1..Len(sec) : sec[i].t = "str" /\ sec[i].v = <<s>>

\* C22: a key/value line labelled "text" and narrative lines of one section
\* do not interfere in either order: no data block makes the extraction
\* raise, and in a finished record a section with a line labelled "text" has
\* under "text" exactly its newline-joined narrative lines when it has any,
\* and holds the value of a single labelled line as the string it was given.
C22_TextKeyReserved ==
  /\ ~(pcX = "raised" /\ spos > 1 /\ soup[spos - 1].cls = "acndata")
  /\ \A j \in 1..Len(records) :
       \A name \in NamedSectionsOf(records[j]) :
         LET lines == LinesOfLast(j, name)
             narr == NarrativeOf(WithText(lines))
             vals == ValuesOf(KeyText, lines)
             sec == Sec(records[j], name)
         IN  KeyText \in LabelsOf(lines) =>
               /\ narr # <<>> =>
                    /\ DictHas(sec, KeyText)
                    /\ DictGet(sec, KeyText)
                         = StrVal(KeyText, Join(<<"\n">>, narr))
               /\ Len(vals) = 1 => StoredAsString(sec, vals[1])

\* C23: in every finished record whose heading gave an identifier the key
\* "ACN" still maps to that identifier, a string, whatever section markers
\* follow the heading, one named "ACN" included; and every other top-level
\* key of a finished record maps to a section mapping.
C23_IdentifierKept ==
  \A j \in 1..Len(records) :
    /\ (Contains(HeadingText(j), <<":">>) /\ TokensAfterColon(j) # <<>>)
         => /\ HasStringId(records[j])
            /\ DictGet(records[j], KeyACN).s = TokensAfterColon(j)[1]
    /\ \A i \in 1..Len(records[j]) :
         records[j][i].k # KeyACN => records[j][i].t = "dict"

(***************************************************************************)
(* Claims about the classifier                                             *)
(***************************************************************************)
\* the names of the sample that hold "narrative" in some letter case
NarrativeNames == { NameNarrative1, NameUpper, NameInner }

\* the positions of the sample whose key names a narrative and whose value is
\* a mapping with a "text" field
Candidates ==
  { i \in 1..Len(incident_sample) :
      /\ incident_sample[i].k \in NarrativeNames
      /\ incident_sample[i].t = "dict"
      /\ incident_sample[i].text }

\* C17: with no field name given, the detected name is "Narrative: 1" when
\* the sample has that section as a mapping with a "text" field, wherever it
\* stands; otherwise it is the first key in record order that contains
\* "narrative" in any letter case and is a mapping with a "text" field.
C17_NarrativeFieldDetection ==
  pcF = "detected" =>
    IF \E i \in Candidates : incident_sample[i].k = NameNarrative1
      THEN narrative_field_name = NameNarrative1
    ELSE Candidates # {}
           => \E i \in Candidates :
                /\ \A j \in Candidates : i <= j
                /\ narrative_field_name = incident_sample[i].k

\* the exact name was detected though another matching section precedes it
C17_Witness ==
  /\ pcF = "detected"
  /\ Len(incident_sample) >= 2
  /\ 1 \in Candidates
  /\ incident_sample[1].k = NameUpper
  /\ 2 \in Candidates
  /\ incident_sample[2].k = NameNarrative1
  /\ narrative_field_name = NameNarrative1

\* the narrative of a record is missing, empty or whitespace-only
ClaimBlank(incident) ==
  \A i \in 1..Len(incident.narr.v) :
    \A j \in 1..Len(incident.narr.v[i]) : incident.narr.v[i][j] \in Whitespace

\* exactly two runs went through the loop to the final save, the first one
\* without an output file, and no position lies in both ranges
TwoDisjointRunsDone ==
  /\ pc = "idle"
  /\ loopRuns = 2
  /\ doneRuns = 2
  /\ fresh
  /\ ~overlap

\* C2: after two runs over disjoint ranges against the same output file the
\* file holds the input records, each once and in place, and every record of
\* either range carries the most recent classification produced for it.
C2_TwoRunsMerge ==
  TwoDisjointRunsDone =>
    /\ outfile.st = "json"
    /\ Len(outfile.data) = Len(incidents)
    /\ \A i \in 1..Len(incidents) :
         [outfile.data[i] EXCEPT !.hfacs = NoHfacs] = incidents[i]
    /\ \A i \in covered :
         /\ produced[i].set
         /\ outfile.data[i].hfacs = produced[i]

\* the records updated in this run whose classification is not in the file
Missing ==
  { i \in touched :
      \/ outfile.st # "json"
      \/ i > Len(outfile.data)
      \/ IF i <= Len(outfile.data)
           THEN outfile.data[i].hfacs # all_incidents_data[i].hfacs
           ELSE TRUE }

\* C4: the master list is in the output file after every fifth record of the
\* range, so never more than five classifications of the run are missing from
\* the file, and none is when the run has ended.
C4_CheckpointEveryFifth ==
  /\ (pc = "loop" /\ cur > 0 /\ cur % CheckpointEvery = 0
        /\ cur < end_idx - start_idx)
       => outfile = JsonFile(all_incidents_data)
  /\ Cardinality(Missing) <= CheckpointEvery
  /\ (pc = "idle" /\ lastExit = "done") => Missing = {}

\* C6: a record with a missing, empty or whitespace-only narrative gets the
\* empty classification without a service call, and the classification
\* function returns the empty list without a call on a blank narrative.
C6_BlankNeverCalls ==
  /\ (target # 0 /\ ClaimBlank(all_incidents_data[target]))
       => /\ ~called
          /\ all_incidents_data[target].hfacs = Hfacs(<<>>)
  /\ \A text \in { <<>>, <<" ">>, <<" ", "\n">> }, resp \in Responses :
       get_hfacs_classification_from_llm(text, resp)
         = [ok |-> TRUE, called |-> FALSE, hfacs |-> <<>>]

\* a whitespace-only narrative was handled in the loop
C6_Witness ==
  /\ pc = "loop"
  /\ target # 0
  /\ all_incidents_data[target].narr = Narr("dict_str", << <<" ">> >>)
  /\ all_incidents_data[target].hfacs = Hfacs(<<>>)
  /\ ~called

\* C9: a result is attached to the record it was produced for, the one at
\* the position being processed, also when identifiers repeat, and runs never
\* add records to the output.
C9_AttachedToOwnRecord ==
  /\ target # 0 => target = start_idx + cur
  /\ outfile.st = "json" => Len(outfile.data) <= Len(incidents)

\* C10: for a record with a non-blank narrative every service outcome ends
\* with the record carrying the returned list or a one-element list with an
\* error descriptor, and the run goes on.
C10_OutcomeAttached ==
  (target # 0 /\ ~ClaimBlank(all_incidents_data[target])) =>
    LET inc == all_incidents_data[target]
    IN  /\ pc # "crashed"
        /\ cur >= 1
        /\ called
        /\ inc.hfacs.set
        /\ response = "list"
             => inc.hfacs.val = << TaxonomyEntry(NarrativeText(inc)) >>
        /\ response # "list"
             => /\ Len(inc.hfacs.val) = 1
                /\ inc.hfacs.val[1].error # "<absent>"

\* a service failure was recorded on the record and more records follow
C10_Witness ==
  /\ pc = "loop"
  /\ target # 0
  /\ response = "apierror"
  /\ all_incidents_data[target].hfacs
       = Hfacs(<< ErrorDescriptor("OpenAI API Error", "<absent>") >>)
  /\ cur < end_idx - start_idx

\* the output file holds a classification for the record at position i
Durable(file, i) ==
  /\ file.st = "json"
  /\ i <= Len(file.data)
  /\ file.data[i].hfacs.set

\* C14: whatever step is taken, a termination of the process at any point
\* included, a classification that a save has put into the output file is
\* still in the file afterwards, and no later run fails to start from the
\* output file.
C14_ResumeAfterTermination ==
  [][ /\ lastExit' # "load_failed"
      /\ \A i \in 1..Len(incidents) :
           Durable(outfile, i) => Durable(outfile', i) ]_vars

\* C15: when the record at hand is not found in the master list, the step
\* the run takes (unless the process is terminated) calls no service, leaves
\* every record and the output file as they are and moves on to the next
\* record; and when the range is used up the final save is made.
C15_SkipOnLookupFailure ==
  [][ /\ (InLoop /\ Lookup(start_idx + cur) = 0 /\ lastExit' # "killed")
           => /\ all_incidents_data' = all_incidents_data
              /\ outfile' = outfile
              /\ ~called'
              /\ response' = NoResponse
              /\ pc' = "loop"
              /\ cur' = cur + 1
      /\ (pc = "loop" /\ cur = end_idx - start_idx /\ lastExit' # "killed")
           => /\ outfile' = JsonFile(all_incidents_data)
              /\ lastExit' = "done" ]_vars

\* a record with an identifier the master list does not know was skipped
\* and records of the range remain
C15_Witness ==
  /\ pc = "loop"
  /\ has_acn
  /\ cur >= 1
  /\ target = 0
  /\ ~DictHas(incident_map, incidents[start_idx + cur].acn)
  /\ cur < end_idx - start_idx

\* the run passes the prompt exactly for the answers in yes, without
\* --estimate_only
PassesPromptFor(yes) ==
  \A estimate_only \in BOOLEAN, confirmation \in Answers :
    Proceeds(estimate_only, confirmation)
      <=> (~estimate_only /\ confirmation \in yes)

\* a step calls the service or writes the output file only in a process
\* that has passed the prompt, a process enters the loop or is declined
\* according to the answers in yes, and a declined run ends without a call
\* and without a write
ConfirmationStep(yes) ==
  /\ (called' \/ outfile' # outfile) => pc = "loop"
  /\ (pc = "idle" /\ pc' = "loop") => PassesPromptFor(yes)
  /\ lastExit' = "declined"
       => /\ PassesPromptFor(yes)
          /\ outfile' = outfile
          /\ ~called'
          /\ pc' = "idle"

\* C18 as amended: no service call and no write to the output file before
\* the user has answered yes in any letter case; with any other answer, or
\* with --estimate_only, the run ends without a call and without a write.
C18_ConfirmedBeforeCalls ==
  [][ ConfirmationStep({ <<"y","e","s">>, <<"Y","E","S">>, <<"Y","e","s">> })
    ]_vars

\* C18 as stated: the run goes on only after the answer "yes"; with any
\* other answer it ends without a call and without a write.
C18_OnlyLiteralYes == [][ ConfirmationStep({ <<"y","e","s">> }) ]_vars

\* a run was declined after an earlier run had written the output file
C18_Witness ==
  /\ pc = "idle"
  /\ lastExit = "declined"
  /\ doneRuns >= 1
  /\ outfile.st = "json"
  /\ ~called

\* the record differs from what it was in nothing but hfacs_classification
SameButHfacs(new, old) == new = [old EXCEPT !.hfacs = new.hfacs]

\* C21: every step of a run over [start_idx, end_idx) that is not a
\* termination keeps the number and order of the records of the master
\* list, leaves every record at an index outside the range as it was (its
\* hfacs_classification included), changes nothing but hfacs_classification
\* of a record inside the range, and writes nothing but the master list to
\* the output file.
C21_OnlyRangeChanges ==
  [][ (pc = "loop" /\ lastExit' # "killed") =>
        /\ Len(all_incidents_data') = Len(all_incidents_data)
        /\ \A i \in 1..Len(all_incidents_data) :
             /\ SameButHfacs(all_incidents_data'[i], all_incidents_data[i])
             /\ i \notin (start_idx + 1)..end_idx
                  => all_incidents_data'[i] = all_incidents_data[i]
        /\ outfile' # outfile => outfile' = JsonFile(all_incidents_data')
    ]_vars

====
